---- MODULE Spec2Model ----
(***************************************************************************)
(* Passkey ceremonies of hackerspub (models/passkey.ts, the second half of *)
(* src/unnamed/part_000, lines 572-719): getRegistrationOptions,           *)
(* verifyRegistration, getAuthenticationOptions and verifyAuthentication,  *)
(* over a Keyv challenge store and the passkey table; and the username    *)
(* bookkeeping of models/account.ts (lines 56-88 and 131-169 of the same   *)
(* file): updateAccountData and getAccountByUsername over the account      *)
(* table, under a specification of its own, SpecAccount.                   *)
(*                                                                         *)
(* Every await of a verify* function that touches a shared store (kv.get,  *)
(* the passkey lookup, the insert, the update) is a step of its own, so    *)
(* that concurrent calls interleave as the event loop lets them.  The      *)
(* verifier call reads only the caller's locals, and is taken together     *)
(* with the store read that precedes it; the client's response, an         *)
(* immutable argument nothing reads before the verifier does, is drawn at  *)
(* that step.                                                              *)
(*                                                                         *)
(* Left out of the passkey row: name (name.trim()), webauthnUserId and the *)
(* schema's created column; no property below reads them.  BigInt() and    *)
(* Number() are exact on the counters used here.                           *)
(***************************************************************************)
EXTENDS Integers, FiniteSets, Sequences, TLC

\* ------------------------------------------------------------------ bounds
MaxChallenges == 2      \* options issued in one behaviour
MaxCalls == 2           \* verify* calls started in one behaviour
MaxTicks == 2           \* clock ticks in one behaviour
TickMs == 300000        \* milliseconds the clock advances per tick
MaxUpdates == 3         \* updateAccountData calls in one behaviour

\* ------------------------------------------------------------- input sets
Ids == {"u1", "u2"}                 \* Uuid values: account ids and session ids
CredIds == {"c1", "c2"}             \* credential ids
Procs == {"p1", "p2"}               \* concurrent requests
Keys == {"k1", "k2"}                \* authenticator key pairs
Counters == {0, 5, 6, 7}            \* counters an assertion may report
ORIGIN == "https://hackers.pub"     \* the origin argument of every call
Origins == {ORIGIN, "https://evil.example"}
Usernames == {"alice", "bob", "carol"}   \* usernames a profile form may send

\* optional values: null is the empty set
None == {}
Some(x) == {x}
The(s) == CHOOSE x \in s : TRUE

\* new URL(origin).hostname and new URL(origin).origin
Hostname(o) == IF o = "https://hackers.pub" THEN "hackers.pub" ELSE "evil.example"
UrlOrigin(o) == o

RP_NAME == "Hackers' Pub"
KV_NAMESPACE == "passkey"
AUTH_TTL_MS == 5 * 60 * 1000

\* `${KV_NAMESPACE}/registration/${account.id}` and
\* `${KV_NAMESPACE}/authentication/${sessionId}`
\* the key as it would be were the account id left out of it
RegKey_NoSubject(accountId) == <<KV_NAMESPACE, "registration", "u1">>

RegKey(accountId) == <<KV_NAMESPACE, "registration", accountId>>
\* the key as it would be were both kinds of options kept under one prefix
AuthKey_RegistrationPrefix(sessionId) == <<KV_NAMESPACE, "registration", sessionId>>

AuthKey(sessionId) == <<KV_NAMESPACE, "authentication", sessionId>>
KvKeys == {RegKey(i) : i \in Ids} \cup {AuthKey(i) : i \in Ids}

\* the two authenticators a client may register with: a security key that
\* counts its signatures and a synced passkey that does not
Authenticators ==
  { [publicKey |-> "k1", counter |-> 5, deviceType |-> "singleDevice",
     backedUp |-> FALSE, transports |-> {"usb"}],
    [publicKey |-> "k2", counter |-> 0, deviceType |-> "multiDevice",
     backedUp |-> TRUE, transports |-> {"internal", "hybrid"}] }

\* what a client may send to verifyRegistration
RegistrationResponses ==
  [id : CredIds, challenge : 1..MaxChallenges, origin : Origins,
   attested : BOOLEAN, authenticator : Authenticators]

\* what a client may send to verifyAuthentication
AuthenticationResponses ==
  [id : CredIds, challenge : 1..MaxChallenges, origin : Origins,
   signedBy : Keys, counter : Counters]

\* --------------------------------------------------------- Keyv (kv: Keyv)
\* An entry is [key, value, expires]; expires is None when set() got no ttl.
KvSet(store, key, value, ttl, t) ==
  {e \in store : e.key # key}
    \cup {[key |-> key, value |-> value,
           expires |-> IF ttl = None THEN None ELSE Some(t + The(ttl))]}

KvLive(store, key, t) ==
  {e \in store : e.key = key /\ (e.expires = None \/ ~(t > The(e.expires)))}

KvGet(store, key, t) ==
  IF KvLive(store, key, t) = {} THEN None
  ELSE Some((The(KvLive(store, key, t))).value)

\* ------------------------------------------------- passkeyTable (db: Database)
\* A row is [id, accountId, publicKey, counter, deviceType, backedUp,
\* transports, lastUsed]; id is the primary key.
DbHasId(table, id) == \E r \in table : r.id = id

DbInsert(table, row) ==
  IF DbHasId(table, row.id)
    THEN [ok |-> FALSE, table |-> table]
    ELSE [ok |-> TRUE, table |-> table \cup {row}]

DbFindFirstById(table, id) ==
  IF DbHasId(table, id) THEN Some(CHOOSE r \in table : r.id = id) ELSE None

\* the update as it would be without its where clause
DbUpdateCounter_EveryRow(table, id, newCounter, t) ==
  { [r EXCEPT !.counter = newCounter, !.lastUsed = Some(t)] : r \in table }

DbUpdateCounter(table, id, newCounter, t) ==
  { IF r.id = id
      THEN [r EXCEPT !.counter = newCounter, !.lastUsed = Some(t)]
      ELSE r : r \in table }

\* --------------------------------------------- @simplewebauthn/server
Thrown(name, got, expected) ==
  [throws |-> TRUE,
   error |-> [name |-> name, got |-> got, expected |-> expected]]

Returned(result) == [throws |-> FALSE, result |-> result]

verifyRegistrationResponse(response, expectedChallenge, expectedOrigin, expectedRPID) ==
  IF response.challenge # expectedChallenge
    THEN Thrown("UnexpectedChallenge", 0, 0)
  ELSE IF response.origin # expectedOrigin
    THEN Thrown("UnexpectedOrigin", 0, 0)
  ELSE IF Hostname(response.origin) # expectedRPID
    THEN Thrown("UnexpectedRPID", 0, 0)
  ELSE IF ~response.attested
    THEN Returned([verified |-> FALSE, registrationInfo |-> None])
  ELSE Returned(
         [verified |-> TRUE,
          registrationInfo |-> Some(
            [credential |-> [id |-> response.id,
                             publicKey |-> response.authenticator.publicKey,
                             counter |-> response.authenticator.counter,
                             transports |-> response.authenticator.transports],
             credentialDeviceType |-> response.authenticator.deviceType,
             credentialBackedUp |-> response.authenticator.backedUp])])

verifyAuthenticationResponse(response, expectedChallenge, expectedOrigin, expectedRPID, credential) ==
  IF response.challenge # expectedChallenge
    THEN Thrown("UnexpectedChallenge", 0, 0)
  ELSE IF response.origin # expectedOrigin
    THEN Thrown("UnexpectedOrigin", 0, 0)
  ELSE IF Hostname(response.origin) # expectedRPID
    THEN Thrown("UnexpectedRPID", 0, 0)
  ELSE IF (response.counter > 0 \/ credential.counter > 0)
          /\ response.counter <= credential.counter
    THEN Thrown("CounterTooLow", response.counter, credential.counter)
  ELSE Returned(
         [verified |-> response.signedBy = credential.publicKey,
          authenticationInfo |-> [credentialID |-> credential.id,
                                  newCounter |-> response.counter]])

\* ------------------------------------------------------------------ state
VARIABLES
  now,            \* Date.now() / CURRENT_TIMESTAMP, in milliseconds
  kv,             \* the Keyv store: a set of entries
  db,             \* passkeyTable: a set of rows
  nextChallenge,  \* the next challenge generate*Options will draw
  calls,          \* verify* calls started so far
  pc,             \* where each request stands
  subject,        \* account.id (verifyRegistration) or sessionId (verifyAuthentication)
  options,        \* the options kv.get returned to the request
  response,       \* the response the request handed to the verifier
  passkey,        \* the row db.query.passkeyTable.findFirst returned
  result,         \* what the verifier returned
  ret,            \* how the request's last call ended
  touched,        \* history: the collaborators the call has reached
  issued,         \* history: per key, the challenge last issued
  issuedAt,       \* history: per session, when its options were last issued
  consumed,       \* history: per key, responses verified since the last issue
  seen,           \* history: consumed[key] when the call was submitted
  replayed,       \* history: the call handed the verifier a response in seen
  found,          \* history: the entry under the call's key when kv.get ran
  failed,         \* history: per key, a call has failed since the last issue
  late,           \* history: the call was submitted after such a failure
  accountTable,   \* accountTable: per account id, its username columns
  updates,        \* updateAccountData calls made so far
  lookup,         \* the last getAccountByUsername call and what it returned
  renames,        \* history: per account, how often its username changed value
  renamedFrom     \* history: per account, the username its first change left

vars == <<now, kv, db, nextChallenge, calls, pc, subject, options, response,
          passkey, result, ret, touched, issued, issuedAt, consumed, seen,
          replayed, found, failed, late, accountTable, updates, lookup,
          renames, renamedFrom>>

accountVars == <<accountTable, updates, lookup, renames, renamedFrom>>

passkeyVars == <<kv, db, nextChallenge, calls, pc, subject, options, response,
                 passkey, result, ret, touched, issued, issuedAt, consumed,
                 seen, replayed, found, failed, late>>

locals == <<options, response, passkey, result>>

\* how a call ends
RetNone == [kind |-> "none"]
RetUndefined == [kind |-> "undefined"]
RetThrow(error) == [kind |-> "throw", error |-> error]
RetValue(value) == [kind |-> "return", value |-> value]

\* throw new Error(`Missing registration options for account ${account.id}.`)
MissingRegistrationOptions(accountId) ==
  [name |-> "MissingRegistrationOptions", got |-> 0, expected |-> 0]

\* the unique violation the insert raises on a primary-key conflict
UniqueViolation == [name |-> "UniqueViolation", got |-> 0, expected |-> 0]

\* history: what lies under key at time t and, while the call holds what it
\* read, how long after the issue it read it
NotRead == [entry |-> "unread", age |-> None]
EntryAt(store, key, t, at) ==
  [entry |-> IF \A e \in store : e.key # key THEN "absent"
             ELSE IF \E e \in store : e.key = key /\ e.expires # None /\ t > The(e.expires)
               THEN "expired" ELSE "live",
   age |-> IF at = None THEN None ELSE Some(t - The(at))]

\* passkeys a database can hold before the first request
SeedRow ==
  [id |-> "c1", accountId |-> "u1", publicKey |-> "k1", counter |-> 5,
   deviceType |-> "singleDevice", backedUp |-> FALSE, transports |-> {"usb"},
   lastUsed |-> None]

\* no getAccountByUsername call made yet
NoLookup == [username |-> None, account |-> None]

\* the accounts before the first request: nobody has changed their username
InitialAccounts ==
  [i \in Ids |->
     [username |-> IF i = "u1" THEN "alice" ELSE "bob",
      oldUsername |-> None, usernameChanged |-> None, updated |-> 0]]

Init ==
  /\ now = 0
  /\ accountTable = InitialAccounts
  /\ updates = 0
  /\ lookup = NoLookup
  /\ renames = [i \in Ids |-> 0]
  /\ renamedFrom = [i \in Ids |-> None]
  /\ kv = {}
  /\ db \in {{}, {SeedRow}}
  /\ nextChallenge = 1
  /\ calls = 0
  /\ pc = [p \in Procs |-> "ready"]
  /\ subject = [p \in Procs |-> None]
  /\ options = [p \in Procs |-> None]
  /\ response = [p \in Procs |-> None]
  /\ passkey = [p \in Procs |-> None]
  /\ result = [p \in Procs |-> None]
  /\ ret = [p \in Procs |-> RetNone]
  /\ touched = [p \in Procs |-> {}]
  /\ issued = [k \in KvKeys |-> None]
  /\ issuedAt = [i \in Ids |-> None]
  /\ consumed = [k \in KvKeys |-> {}]
  /\ seen = [p \in Procs |-> {}]
  /\ replayed = [p \in Procs |-> FALSE]
  /\ found = [p \in Procs |-> NotRead]
  /\ failed = [k \in KvKeys |-> FALSE]
  /\ late = [p \in Procs |-> FALSE]

\* the key a request in flight reads its options from
KeyOf(p) ==
  IF pc[p] \in {"vr_get", "vr_insert"}
    THEN RegKey(The(subject[p])) ELSE AuthKey(The(subject[p]))

InFlight(p) == pc[p] # "ready"

\* history kept when options are issued under key
Issue(key, challenge) ==
  /\ issued' = [issued EXCEPT ![key] = Some(challenge)]
  /\ consumed' = [consumed EXCEPT ![key] = {}]
  /\ seen' = [p \in Procs |->
                IF InFlight(p) /\ KeyOf(p) = key THEN {} ELSE seen[p]]
  /\ failed' = [failed EXCEPT ![key] = FALSE]
  /\ late' = [p \in Procs |->
                IF InFlight(p) /\ KeyOf(p) = key THEN FALSE ELSE late[p]]

\* the outcome is a verified result
Succeeded(outcome) ==
  /\ outcome.kind = "return"
  /\ IF "response" \in DOMAIN outcome.value
       THEN outcome.value.response.verified ELSE outcome.value.verified

\* a request ends: its locals go, its argument and its outcome stay
Finish(p, outcome) ==
  /\ pc' = [pc EXCEPT ![p] = "ready"]
  /\ failed' = [failed EXCEPT ![KeyOf(p)] = @ \/ ~Succeeded(outcome)]
  /\ late' = [late EXCEPT ![p] = FALSE]
  /\ ret' = [ret EXCEPT ![p] = outcome]
  /\ UNCHANGED subject
  /\ options' = [options EXCEPT ![p] = None]
  /\ response' = [response EXCEPT ![p] = None]
  /\ passkey' = [passkey EXCEPT ![p] = None]
  /\ result' = [result EXCEPT ![p] = None]

Tick ==
  /\ now < MaxTicks * TickMs
  /\ now' = now + TickMs
  /\ UNCHANGED <<kv, db, nextChallenge, calls, pc, subject, locals, ret,
                 touched, issued, issuedAt, consumed, seen, replayed, found,
                 failed, late>>
  /\ UNCHANGED accountVars

\* the list as it would be were it built from every stored row
ExcludeCredentials_EveryAccount(accountId) ==
  {[id |-> r.id, transports |-> r.transports] : r \in db}

\* ----------------------------------------------- getRegistrationOptions
\* account.passkeys is what the caller loaded with the account: the rows the
\* account owns when the options are issued.
ExcludeCredentials(accountId) ==
  {[id |-> r.id, transports |-> r.transports] : r \in {x \in db : x.accountId = accountId}}

\* the issue as it would be were an outstanding entry left in place
getRegistrationOptions_KeepsFirst(accountId) ==
  /\ nextChallenge <= MaxChallenges
  /\ LET opts == [challenge |-> nextChallenge,
                  rp |-> [name |-> RP_NAME, id |-> Hostname(ORIGIN)],
                  user |-> [name |-> accountId],
                  excludeCredentials |-> ExcludeCredentials(accountId)]
     IN /\ kv' = IF \E e \in kv : e.key = RegKey(accountId)
                   THEN kv ELSE KvSet(kv, RegKey(accountId), opts, None, now)
        /\ Issue(RegKey(accountId), opts.challenge)
  /\ nextChallenge' = nextChallenge + 1
  /\ UNCHANGED <<now, db, calls, pc, subject, locals, ret, touched, issuedAt,
                 replayed, found>>
  /\ UNCHANGED accountVars

getRegistrationOptions(accountId) ==
  /\ nextChallenge <= MaxChallenges
  /\ LET opts == [challenge |-> nextChallenge,
                  rp |-> [name |-> RP_NAME, id |-> Hostname(ORIGIN)],
                  user |-> [name |-> accountId],
                  excludeCredentials |-> ExcludeCredentials(accountId)]
     IN /\ kv' = KvSet(kv, RegKey(accountId), opts, None, now)
        /\ Issue(RegKey(accountId), opts.challenge)
  /\ nextChallenge' = nextChallenge + 1
  /\ UNCHANGED <<now, db, calls, pc, subject, locals, ret, touched, issuedAt,
                 replayed, found>>
  /\ UNCHANGED accountVars

\* --------------------------------------------- getAuthenticationOptions
\* the issue as it would be were the ttl argument left out
getAuthenticationOptions_NoTtl(sessionId) ==
  /\ nextChallenge <= MaxChallenges
  /\ LET opts == [challenge |-> nextChallenge, rpId |-> Hostname(ORIGIN)]
     IN /\ kv' = KvSet(kv, AuthKey(sessionId), opts, None, now)
        /\ Issue(AuthKey(sessionId), opts.challenge)
  /\ issuedAt' = [issuedAt EXCEPT ![sessionId] = Some(now)]
  /\ nextChallenge' = nextChallenge + 1
  /\ UNCHANGED <<now, db, calls, pc, subject, locals, ret, touched, replayed,
                 found>>
  /\ UNCHANGED accountVars

getAuthenticationOptions(sessionId) ==
  /\ nextChallenge <= MaxChallenges
  /\ LET opts == [challenge |-> nextChallenge, rpId |-> Hostname(ORIGIN)]
     IN /\ kv' = KvSet(kv, AuthKey(sessionId), opts, Some(AUTH_TTL_MS), now)
        /\ Issue(AuthKey(sessionId), opts.challenge)
  /\ issuedAt' = [issuedAt EXCEPT ![sessionId] = Some(now)]
  /\ nextChallenge' = nextChallenge + 1
  /\ UNCHANGED <<now, db, calls, pc, subject, locals, ret, touched, replayed,
                 found>>
  /\ UNCHANGED accountVars

\* requests are interchangeable: a new one takes the first free slot
FirstFree == CHOOSE p \in Procs : pc[p] = "ready" /\ (p = "p1" \/ pc["p1"] # "ready")

\* a request is submitted: the caller enters a verify* function
Submit(p, label, id, key) ==
  /\ pc[p] = "ready"
  /\ p = FirstFree
  /\ calls < MaxCalls
  /\ calls' = calls + 1
  /\ pc' = [pc EXCEPT ![p] = label]
  /\ subject' = [subject EXCEPT ![p] = Some(id)]
  /\ ret' = [ret EXCEPT ![p] = RetNone]
  /\ touched' = [touched EXCEPT ![p] = {}]
  /\ seen' = [seen EXCEPT ![p] = consumed[key]]
  /\ replayed' = [replayed EXCEPT ![p] = FALSE]
  /\ found' = [found EXCEPT ![p] = NotRead]
  /\ late' = [late EXCEPT ![p] = failed[key]]
  /\ UNCHANGED <<now, kv, db, nextChallenge, locals, issued, issuedAt, consumed,
                 failed>>
  /\ UNCHANGED accountVars

\* ---------------------------------------------------- verifyRegistration
verifyRegistration_call(p, accountId) ==
  Submit(p, "vr_get", accountId, RegKey(accountId))

\* the row as it would be were the attested counter dropped
NewPasskey_ZeroCounter(accountId, info) ==
  [id |-> info.credential.id,
   accountId |-> accountId,
   publicKey |-> info.credential.publicKey,
   counter |-> 0,
   deviceType |-> info.credentialDeviceType,
   backedUp |-> info.credentialBackedUp,
   transports |-> info.credential.transports,
   lastUsed |-> None]

\* the row of lines 642-652
NewPasskey(accountId, info) ==
  [id |-> info.credential.id,
   accountId |-> accountId,
   publicKey |-> info.credential.publicKey,
   counter |-> info.credential.counter,
   deviceType |-> info.credentialDeviceType,
   backedUp |-> info.credentialBackedUp,
   transports |-> info.credential.transports,
   lastUsed |-> None]

\* if (result.verified && result.registrationInfo != null)
ShouldInsert(res) == res.verified /\ res.registrationInfo # None

\* the check as it would be were the expected challenge taken from the response
verifyRegistration_get_TrustsResponse(p) ==
  /\ pc[p] = "vr_get"
  /\ LET opts == KvGet(kv, RegKey(The(subject[p])), now)
     IN IF opts = None
          THEN /\ touched' = [touched EXCEPT ![p] = @ \cup {"kv"}]
               /\ Finish(p, RetThrow(MissingRegistrationOptions(The(subject[p]))))
               /\ UNCHANGED replayed
          ELSE \E r \in RegistrationResponses :
                 LET out == verifyRegistrationResponse(
                              r, r.challenge, UrlOrigin(ORIGIN), Hostname(ORIGIN))
                 IN /\ touched' = [touched EXCEPT ![p] = @ \cup {"kv", "verifier"}]
                    /\ replayed' = [replayed EXCEPT ![p] = r \in seen[p]]
                    /\ IF out.throws
                         THEN Finish(p, RetThrow(out.error))
                       ELSE IF ShouldInsert(out.result)
                         THEN /\ pc' = [pc EXCEPT ![p] = "vr_insert"]
                              /\ options' = [options EXCEPT ![p] = opts]
                              /\ response' = [response EXCEPT ![p] = Some(r)]
                              /\ result' = [result EXCEPT ![p] = Some(out.result)]
                              /\ UNCHANGED <<subject, passkey, ret, failed, late>>
                       ELSE Finish(p, RetValue(out.result))
  /\ found' = [found EXCEPT ![p] = EntryAt(kv, RegKey(The(subject[p])), now, None)]
  /\ UNCHANGED <<now, kv, db, nextChallenge, calls, issued, issuedAt, consumed, seen>>
  /\ UNCHANGED accountVars

\* kv.get, the missing-options throw, and verifyRegistrationResponse
verifyRegistration_get(p) ==
  /\ pc[p] = "vr_get"
  /\ LET opts == KvGet(kv, RegKey(The(subject[p])), now)
     IN IF opts = None
          THEN /\ touched' = [touched EXCEPT ![p] = @ \cup {"kv"}]
               /\ Finish(p, RetThrow(MissingRegistrationOptions(The(subject[p]))))
               /\ UNCHANGED replayed
          ELSE \E r \in RegistrationResponses :
                 LET out == verifyRegistrationResponse(
                              r, The(opts).challenge, UrlOrigin(ORIGIN), Hostname(ORIGIN))
                 IN /\ touched' = [touched EXCEPT ![p] = @ \cup {"kv", "verifier"}]
                    /\ replayed' = [replayed EXCEPT ![p] = r \in seen[p]]
                    /\ IF out.throws
                         THEN Finish(p, RetThrow(out.error))
                       ELSE IF ShouldInsert(out.result)
                         THEN /\ pc' = [pc EXCEPT ![p] = "vr_insert"]
                              /\ options' = [options EXCEPT ![p] = opts]
                              /\ response' = [response EXCEPT ![p] = Some(r)]
                              /\ result' = [result EXCEPT ![p] = Some(out.result)]
                              /\ UNCHANGED <<subject, passkey, ret, failed, late>>
                       ELSE Finish(p, RetValue(out.result))
  /\ found' = [found EXCEPT ![p] = EntryAt(kv, RegKey(The(subject[p])), now, None)]
  /\ UNCHANGED <<now, kv, db, nextChallenge, calls, issued, issuedAt, consumed, seen>>
  /\ UNCHANGED accountVars

\* the insert as it would be were the conflict caught and the result returned
verifyRegistration_insert_SwallowsConflict(p) ==
  /\ pc[p] = "vr_insert"
  /\ LET res == The(result[p])
         ins == DbInsert(db, NewPasskey(The(subject[p]), The(res.registrationInfo)))
     IN /\ touched' = [touched EXCEPT ![p] = @ \cup {"db"}]
        /\ db' = ins.table
        /\ consumed' = IF ins.ok
                         THEN [consumed EXCEPT ![KeyOf(p)] = @ \cup response[p]]
                         ELSE consumed
        /\ Finish(p, RetValue(res))
  /\ UNCHANGED <<now, kv, nextChallenge, calls, issued, issuedAt, seen, replayed, found>>
  /\ UNCHANGED accountVars

\* the insert as it would be with an update on conflict
verifyRegistration_insert_Upsert(p) ==
  /\ pc[p] = "vr_insert"
  /\ LET res == The(result[p])
         row == NewPasskey(The(subject[p]), The(res.registrationInfo))
     IN /\ touched' = [touched EXCEPT ![p] = @ \cup {"db"}]
        /\ db' = {r \in db : r.id # row.id} \cup {row}
        /\ consumed' = [consumed EXCEPT ![KeyOf(p)] = @ \cup response[p]]
        /\ Finish(p, RetValue(res))
  /\ UNCHANGED <<now, kv, nextChallenge, calls, issued, issuedAt, seen, replayed, found>>
  /\ UNCHANGED accountVars

\* db.insert(passkeyTable).values(...) and return result
verifyRegistration_insert(p) ==
  /\ pc[p] = "vr_insert"
  /\ LET res == The(result[p])
         ins == DbInsert(db, NewPasskey(The(subject[p]), The(res.registrationInfo)))
     IN /\ touched' = [touched EXCEPT ![p] = @ \cup {"db"}]
        /\ db' = ins.table
        /\ IF ins.ok
             THEN /\ consumed' = [consumed EXCEPT ![KeyOf(p)] = @ \cup response[p]]
                  /\ Finish(p, RetValue(res))
             ELSE /\ UNCHANGED consumed
                  /\ Finish(p, RetThrow(UniqueViolation))
  /\ UNCHANGED <<now, kv, nextChallenge, calls, issued, issuedAt, seen, replayed, found>>
  /\ UNCHANGED accountVars

\* -------------------------------------------------- verifyAuthentication
verifyAuthentication_call(p, sessionId) ==
  Submit(p, "va_get", sessionId, AuthKey(sessionId))

\* the read as it would be were an entry past its expiry still handed out
verifyAuthentication_get_IgnoresExpiry(p) ==
  /\ pc[p] = "va_get"
  /\ LET opts == KvGet(kv, AuthKey(The(subject[p])), 0)
     IN /\ touched' = [touched EXCEPT ![p] = @ \cup {"kv"}]
        /\ IF opts = None
             THEN Finish(p, RetUndefined)
             ELSE /\ pc' = [pc EXCEPT ![p] = "va_find"]
                  /\ options' = [options EXCEPT ![p] = opts]
                  /\ UNCHANGED <<subject, response, passkey, result, ret, failed, late>>
  /\ found' = [found EXCEPT ![p] =
                 EntryAt(kv, AuthKey(The(subject[p])), now,
                         IF KvGet(kv, AuthKey(The(subject[p])), 0) = None
                           THEN None ELSE issuedAt[The(subject[p])])]
  /\ UNCHANGED <<now, kv, db, nextChallenge, calls, issued, issuedAt, consumed, seen,
                 replayed>>
  /\ UNCHANGED accountVars

\* kv.get and if (options == null) return undefined
verifyAuthentication_get(p) ==
  /\ pc[p] = "va_get"
  /\ LET opts == KvGet(kv, AuthKey(The(subject[p])), now)
     IN /\ touched' = [touched EXCEPT ![p] = @ \cup {"kv"}]
        /\ IF opts = None
             THEN Finish(p, RetUndefined)
             ELSE /\ pc' = [pc EXCEPT ![p] = "va_find"]
                  /\ options' = [options EXCEPT ![p] = opts]
                  /\ UNCHANGED <<subject, response, passkey, result, ret, failed, late>>
  /\ found' = [found EXCEPT ![p] =
                 EntryAt(kv, AuthKey(The(subject[p])), now,
                         IF KvGet(kv, AuthKey(The(subject[p])), now) = None
                           THEN None ELSE issuedAt[The(subject[p])])]
  /\ UNCHANGED <<now, kv, db, nextChallenge, calls, issued, issuedAt, consumed, seen,
                 replayed>>
  /\ UNCHANGED accountVars

\* the guard as it would be were the update made whatever the verifier said
ShouldUpdate_Always(res) == TRUE

\* if (result.verified)
ShouldUpdate(res) == res.verified

\* the credential argument of lines 703-708
CredentialOf(resp, row) ==
  [id |-> resp.id, publicKey |-> row.publicKey, counter |-> row.counter,
   transports |-> row.transports]

\* return { response: result, account: passkey.account, passkey }
AuthenticationValue(res, row) ==
  [response |-> res, account |-> row.accountId, passkey |-> row]

\* passkeyTable.findFirst, if (passkey == null) return undefined, and
\* verifyAuthenticationResponse
verifyAuthentication_find(p) ==
  /\ pc[p] = "va_find"
  /\ \E r \in AuthenticationResponses :
       LET row == DbFindFirstById(db, r.id)
       IN /\ replayed' = [replayed EXCEPT ![p] = r \in seen[p]]
          /\ IF row = None
               THEN /\ touched' = [touched EXCEPT ![p] = @ \cup {"db"}]
                    /\ Finish(p, RetUndefined)
               ELSE LET out == verifyAuthenticationResponse(
                                 r, The(options[p]).challenge, UrlOrigin(ORIGIN),
                                 Hostname(ORIGIN), CredentialOf(r, The(row)))
                    IN /\ touched' = [touched EXCEPT ![p] = @ \cup {"db", "verifier"}]
                       /\ IF out.throws
                            THEN Finish(p, RetThrow(out.error))
                          ELSE IF ShouldUpdate(out.result)
                            THEN /\ pc' = [pc EXCEPT ![p] = "va_update"]
                                 /\ response' = [response EXCEPT ![p] = Some(r)]
                                 /\ passkey' = [passkey EXCEPT ![p] = row]
                                 /\ result' = [result EXCEPT ![p] = Some(out.result)]
                                 /\ UNCHANGED <<subject, options, ret, failed, late>>
                          ELSE Finish(p, RetValue(AuthenticationValue(out.result, The(row))))
  /\ found' = [found EXCEPT ![p].age = None]
  /\ UNCHANGED <<now, kv, db, nextChallenge, calls, issued, issuedAt, consumed, seen>>
  /\ UNCHANGED accountVars

\* the update as it would be were the options stored again on success
verifyAuthentication_update_StoresOptionsAgain(p) ==
  /\ pc[p] = "va_update"
  /\ LET res == The(result[p])
     IN /\ db' = DbUpdateCounter(db, The(response[p]).id,
                                 res.authenticationInfo.newCounter, now)
        /\ kv' = KvSet(kv, KeyOf(p), The(options[p]), Some(AUTH_TTL_MS), now)
        /\ consumed' = [consumed EXCEPT ![KeyOf(p)] = @ \cup response[p]]
        /\ Finish(p, RetValue(AuthenticationValue(res, The(passkey[p]))))
  /\ UNCHANGED <<now, nextChallenge, calls, touched, issued, issuedAt, seen,
                 replayed, found>>
  /\ UNCHANGED accountVars

\* the update as it would be were the counter it writes the one it read
verifyAuthentication_update_StaleCounter(p) ==
  /\ pc[p] = "va_update"
  /\ LET res == The(result[p])
     IN /\ db' = DbUpdateCounter(db, The(response[p]).id, The(passkey[p]).counter, now)
        /\ consumed' = [consumed EXCEPT ![KeyOf(p)] = @ \cup response[p]]
        /\ Finish(p, RetValue(AuthenticationValue(res, The(passkey[p]))))
  /\ UNCHANGED <<now, kv, nextChallenge, calls, touched, issued, issuedAt, seen,
                 replayed, found>>
  /\ UNCHANGED accountVars

\* db.update(passkeyTable).set({counter, lastUsed}).where(id = response.id)
\* and the return
verifyAuthentication_update(p) ==
  /\ pc[p] = "va_update"
  /\ LET res == The(result[p])
     IN /\ db' = DbUpdateCounter(db, The(response[p]).id,
                                 res.authenticationInfo.newCounter, now)
        /\ consumed' = [consumed EXCEPT ![KeyOf(p)] = @ \cup response[p]]
        /\ Finish(p, RetValue(AuthenticationValue(res, The(passkey[p]))))
  /\ UNCHANGED <<now, kv, nextChallenge, calls, touched, issued, issuedAt, seen,
                 replayed, found>>
  /\ UNCHANGED accountVars

Next ==
  \/ Tick
  \/ \E i \in Ids : getRegistrationOptions(i)
  \/ \E i \in Ids : getAuthenticationOptions(i)
  \/ \E p \in Procs, i \in Ids : verifyRegistration_call(p, i)
  \/ \E p \in Procs : verifyRegistration_get(p)
  \/ \E p \in Procs : verifyRegistration_insert(p)
  \/ \E p \in Procs, i \in Ids : verifyAuthentication_call(p, i)
  \/ \E p \in Procs : verifyAuthentication_get(p)
  \/ \E p \in Procs : verifyAuthentication_find(p)
  \/ \E p \in Procs : verifyAuthentication_update(p)

Spec == Init /\ [][Next]_vars

\* ------------------------------------------------------ updateAccountData
\* CASE WHEN usernameChanged IS NULL THEN ${values.username} ELSE username END,
\* as it would be without the CASE
SetUsername_Always(row, username) == username

\* CASE WHEN usernameChanged IS NULL THEN ${values.username} ELSE username END
SetUsername(row, username) ==
  IF row.usernameChanged = None THEN username ELSE row.username

\* CASE WHEN username = ${values.username} OR usernameChanged IS NOT NULL
\*      THEN NULL ELSE username END
SetOldUsername(row, username) ==
  IF row.username = username \/ row.usernameChanged # None
    THEN None ELSE Some(row.username)

\* CASE WHEN username = ${values.username} OR usernameChanged IS NOT NULL
\*      THEN usernameChanged ELSE CURRENT_TIMESTAMP END
SetUsernameChanged(row, username, t) ==
  IF row.username = username \/ row.usernameChanged # None
    THEN row.usernameChanged ELSE Some(t)

\* the set clause: every CASE reads the row as it was before the update
UpdatedAccount(row, values, t) ==
  IF values.username = None
    THEN [row EXCEPT !.updated = t]
    ELSE [username |-> SetUsername(row, The(values.username)),
          oldUsername |-> SetOldUsername(row, The(values.username)),
          usernameChanged |-> SetUsernameChanged(row, The(values.username), t),
          updated |-> t]

\* the unique index on username refuses a name another account holds
UsernameTaken(table, id, username) ==
  \E i \in DOMAIN table : i # id /\ table[i].username = username

\* db.update(accountTable).set(...).where(eq(accountTable.id, account.id))
updateAccountData(id, values) ==
  /\ updates < MaxUpdates
  /\ updates' = updates + 1
  /\ LET row == accountTable[id]
         new == UpdatedAccount(row, values, now)
     IN IF UsernameTaken(accountTable, id, new.username)
          THEN UNCHANGED <<accountTable, renames, renamedFrom>>
          ELSE /\ accountTable' = [accountTable EXCEPT ![id] = new]
               /\ renames' = [renames EXCEPT ![id] =
                                IF new.username # row.username THEN @ + 1 ELSE @]
               /\ renamedFrom' = [renamedFrom EXCEPT ![id] =
                                    IF new.username # row.username /\ @ = None
                                      THEN Some(row.username) ELSE @]
  /\ UNCHANGED <<now, lookup>>
  /\ UNCHANGED passkeyVars

\* --------------------------------------------------- getAccountByUsername
\* the accounts findFirst may return for where: {oldUsername, usernameChanged:
\* {isNotNull}} and orderBy: {usernameChanged: "desc"}
ByOldUsername(table, username) ==
  LET cands == {i \in DOMAIN table :
                  /\ table[i].oldUsername = Some(username)
                  /\ table[i].usernameChanged # None}
  IN {i \in cands :
        \A j \in cands :
          The(table[j].usernameChanged) <= The(table[i].usernameChanged)}

\* the accounts the function may return; none stands for undefined
AccountsByUsername(table, username) ==
  LET current == {i \in DOMAIN table : table[i].username = username}
  IN IF current # {} THEN current ELSE ByOldUsername(table, username)

getAccountByUsername(username) ==
  /\ LET accounts == AccountsByUsername(accountTable, username)
     IN IF accounts = {}
          THEN lookup' = [username |-> Some(username), account |-> None]
          ELSE \E i \in accounts :
                 lookup' = [username |-> Some(username), account |-> Some(i)]
  /\ UNCHANGED <<now, accountTable, updates, renames, renamedFrom>>
  /\ UNCHANGED passkeyVars

\* the values a call may carry: a username or none (other profile columns
\* are not modelled)
AccountValues == [username : {None} \cup {Some(u) : u \in Usernames}]

InitAccount == Init /\ db = {}

NextAccount ==
  \/ Tick
  \/ \E i \in Ids, v \in AccountValues : updateAccountData(i, v)
  \/ \E u \in Usernames : getAccountByUsername(u)

SpecAccount == InitAccount /\ [][NextAccount]_vars

\* ------------------------------------------------------------ properties
\* How the spec's failure categories show at the caller.
\* MissingChallenge: the throw of line 630, or the undefined of line 690,
\* which the call returns having reached the challenge store only.
IsMissingChallenge(p) ==
  /\ pc[p] = "ready"
  /\ touched[p] = {"kv"}
  /\ \/ ret[p] = RetUndefined
     \/ ret[p].kind = "throw" /\ ret[p].error.name = "MissingRegistrationOptions"

\* UnknownCredential: the undefined of line 697
IsUnknownCredential(p) ==
  pc[p] = "ready" /\ touched[p] = {"kv", "db"} /\ ret[p] = RetUndefined

\* PossibleCloneDetected: the verifier's counter error
IsPossibleClone(r) == r.kind = "throw" /\ r.error.name = "CounterTooLow"

\* VerificationFailed: any other error of the verifier, or verified = false
IsVerificationFailed(r) ==
  \/ r.kind = "throw"
     /\ r.error.name \in {"UnexpectedChallenge", "UnexpectedOrigin", "UnexpectedRPID"}
  \/ r.kind = "return"
     /\ ~(IF "response" \in DOMAIN r.value
            THEN r.value.response.verified ELSE r.value.verified)

\* a verifyAuthentication call that returned a verified result
AuthSucceeded(r) ==
  r.kind = "return" /\ "response" \in DOMAIN r.value /\ r.value.response.verified

\* a verifyRegistration call that returned a verified result
RegSucceeded(r) ==
  r.kind = "return" /\ "registrationInfo" \in DOMAIN r.value /\ r.value.verified

StoredCounter(table, id) == (CHOOSE r \in table : r.id = id).counter

\* C1: a response that was verified for a subject and is submitted again for
\* that subject, with no options issued in between, fails with
\* MissingChallenge and reaches neither the verifier nor the repository.
C1_ReplayFailsWithMissingChallenge ==
  \A p \in Procs : replayed[p] => IsMissingChallenge(p)

\* C2: the stored signatureCounter of a credential never decreases, whatever
\* the interleaving of concurrent verifyAuthentication calls.
C2_StoredCounterNeverDecreases ==
  [][\A r \in db : \A r2 \in db' : r2.id = r.id => r2.counter >= r.counter]_vars

\* C3: with a live challenge and a known credential, a reported counter above
\* the stored one, or 0 against a stored 0, is accepted and becomes the stored
\* counter; any other reported counter fails with PossibleCloneDetected and
\* leaves the stored counter as it was.
CounterAccepted(reported, stored) ==
  reported > stored \/ (reported = 0 /\ stored = 0)

C3_CounterRule ==
  [][\A p \in Procs :
       /\ (pc[p] = "va_find" /\ pc'[p] = "va_update")
            => /\ CounterAccepted(The(response'[p]).counter, The(passkey'[p]).counter)
               /\ The(result'[p]).authenticationInfo.newCounter = The(response'[p]).counter
               /\ db' = db
       /\ (pc[p] = "va_find" /\ pc'[p] = "ready" /\ IsPossibleClone(ret'[p]))
            => /\ ~CounterAccepted(ret'[p].error.got, ret'[p].error.expected)
               /\ ret'[p].error.expected > 0
               /\ \E r \in db : r.counter = ret'[p].error.expected
               /\ db' = db
       /\ (pc[p] = "va_update" /\ pc'[p] = "ready")
            => /\ AuthSucceeded(ret'[p])
               /\ StoredCounter(db', The(response[p]).id) = The(response[p]).counter
     ]_vars

C3_Witness ==
  \E p, q \in Procs :
    /\ pc[p] = "ready" /\ AuthSucceeded(ret[p])
    /\ ret[p].value.passkey.counter = 5
    /\ ret[p].value.response.authenticationInfo.newCounter = 6
    /\ StoredCounter(db, ret[p].value.passkey.id) = 6
    /\ pc[q] = "ready" /\ IsPossibleClone(ret[q])
    /\ ret[q].error.got = 5 /\ ret[q].error.expected = 6

\* the entry under key k, as found[p].entry names it
EntryState(k) == EntryAt(kv, k, now, None).entry

\* C4: a verify call made when the subject's challenge entry has expired
\* fails with MissingChallenge, never with VerificationFailed, whatever the
\* response; the verifier is not consulted and no store changes.
C4_ExpiredIsMissingChallenge ==
  [][\A p \in Procs :
       (pc[p] \in {"vr_get", "va_get"} /\ pc'[p] # pc[p]
          /\ EntryState(KeyOf(p)) = "expired")
         => /\ IsMissingChallenge(p)'
            /\ ~IsVerificationFailed(ret'[p])
            /\ "verifier" \notin touched'[p]
            /\ db' = db /\ kv' = kv
     ]_vars

C4_Witness ==
  \E p \in Procs :
    /\ found[p].entry = "expired"
    /\ IsMissingChallenge(p)
    /\ EntryState(AuthKey(The(subject[p]))) = "expired"

\* C5: there is at most one challenge entry per (namespace, subject); issuing
\* options again for a subject replaces the entry, and a later verify call is
\* checked against the challenge issued last: only a response over that
\* challenge verifies.
C5_Supersession ==
  [][/\ \A k \in KvKeys : Cardinality({e \in kv' : e.key = k}) <= 1
     /\ \A k \in KvKeys :
          issued'[k] # issued[k]
            => {e.value.challenge : e \in {x \in kv' : x.key = k}} = issued'[k]
     /\ \A p \in Procs :
          /\ (pc[p] = "va_get" /\ pc'[p] = "va_find")
               => Some(The(options'[p]).challenge) = issued[KeyOf(p)]
          /\ (pc[p] = "va_find" /\ pc'[p] = "va_update")
               => The(response'[p]).challenge = The(options[p]).challenge
          /\ (pc[p] = "vr_get" /\ pc'[p] = "vr_insert")
               => /\ Some(The(options'[p]).challenge) = issued[KeyOf(p)]
                  /\ Some(The(response'[p]).challenge) = issued[KeyOf(p)]
    ]_vars

C5_Witness ==
  \E p \in Procs :
    /\ pc[p] = "va_update"
    /\ The(response[p]).challenge = 2
    /\ nextChallenge = 3
    /\ Cardinality(kv) = 1

\* C6: authentication options are stored with a TTL of exactly five minutes;
\* a verifyAuthentication call that reads more than five minutes after the
\* last issue for its session fails with MissingChallenge, one that reads
\* within five minutes finds the challenge.
FiveMinutes == 5 * 60 * 1000

C6_AuthenticationTimeout ==
  [][/\ \A i \in Ids : \A e \in kv' :
          e.key = AuthKey(i) => e.expires = Some(The(issuedAt'[i]) + FiveMinutes)
     /\ \A p \in Procs :
          (pc[p] = "va_get" /\ pc'[p] # "va_get" /\ issuedAt[The(subject[p])] # None)
            => IF now - The(issuedAt[The(subject[p])]) > FiveMinutes
                 THEN IsMissingChallenge(p)'
                 ELSE /\ pc'[p] = "va_find"
                      /\ Some(The(options'[p]).challenge) = issued[KeyOf(p)]
    ]_vars

C6_Witness ==
  \E p, q \in Procs :
    /\ pc[p] = "va_find" /\ found[p].age = Some(FiveMinutes)
    /\ found[q].entry = "expired" /\ IsMissingChallenge(q)
    /\ subject[q] = subject[p]

\* C7: with a live challenge and a credential id the repository does not
\* hold, verifyAuthentication fails with UnknownCredential, an outcome the
\* caller can tell from MissingChallenge.
C7_UnknownCredentialDistinct ==
  \A p, q \in Procs :
    (IsUnknownCredential(p) /\ IsMissingChallenge(q)) => ret[p] # ret[q]

\* the ids of the rows of a table
IdsOf(table) == {r.id : r \in table}

\* C8: when the verifier rejects a registration response the call reports
\* VerificationFailed and changes neither store; a row is inserted only for
\* a response the verifier accepted against the stored challenge and the
\* configured origin.
C8_RegistrationFailureChangesNothing ==
  [][/\ \A p \in Procs :
          (pc[p] = "vr_get" /\ pc'[p] = "ready" /\ "verifier" \in touched'[p])
            => /\ IsVerificationFailed(ret'[p])
               /\ db' = db /\ kv' = kv
     /\ IdsOf(db') # IdsOf(db)
          => \E p \in Procs :
               /\ pc[p] = "vr_insert" /\ pc'[p] = "ready"
               /\ The(result[p]).verified
               /\ The(response[p]).attested
               /\ The(response[p]).challenge = The(options[p]).challenge
               /\ The(response[p]).origin = UrlOrigin(ORIGIN)
    ]_vars

C8_Witness ==
  \E p \in Procs :
    /\ pc[p] = "ready"
    /\ touched[p] = {"kv", "verifier"}
    /\ IsVerificationFailed(ret[p])
    /\ db = {}
    /\ EntryState(RegKey(The(subject[p]))) = "live"

\* C9: a verifyRegistration call for account A whose response the verifier
\* accepted, naming a credential id not yet stored, inserts exactly one row,
\* owned by A, with the id, public key, counter, device type, backup flag and
\* transports of the response; no other row is added, changed or removed.
C9_RegistrationInsertsOneRow ==
  [][\A p \in Procs :
       (pc[p] = "vr_insert" /\ pc'[p] = "ready")
         => LET r == The(response[p])
                row == [id |-> r.id,
                        accountId |-> The(subject[p]),
                        publicKey |-> r.authenticator.publicKey,
                        counter |-> r.authenticator.counter,
                        deviceType |-> r.authenticator.deviceType,
                        backedUp |-> r.authenticator.backedUp,
                        transports |-> r.authenticator.transports,
                        lastUsed |-> None]
            IN IF r.id \in IdsOf(db)
                 THEN ~RegSucceeded(ret'[p]) /\ db' = db
                 ELSE RegSucceeded(ret'[p]) /\ db' = db \cup {row} /\ row \notin db
     ]_vars

C9_Witness ==
  \E p \in Procs :
    /\ pc[p] = "ready" /\ RegSucceeded(ret[p])
    /\ LET info == The(ret[p].value.registrationInfo)
       IN /\ info.credential.id = "c2"
          /\ info.credential.counter = 5
          /\ \E row \in db :
               /\ row.id = "c2" /\ row.accountId = The(subject[p])
               /\ row.counter = 5 /\ row.publicKey = info.credential.publicKey
    /\ Cardinality(db) = 2

\* C10: each credential id occurs in at most one row, and the id and the
\* owner of a stored row never change, whatever registrations and
\* authentications interleave.
C10_CredentialIdentity ==
  [][/\ \A r1, r2 \in db' : r1.id = r2.id => r1 = r2
     /\ \A r \in db : \E r2 \in db' : r2.id = r.id /\ r2.accountId = r.accountId
    ]_vars

C10_Witness ==
  \E p, q \in Procs :
    /\ pc[p] = "ready" /\ RegSucceeded(ret[p])
    /\ pc[q] = "ready" /\ ret[q] = RetThrow(UniqueViolation)
    /\ subject[p] # subject[q]
    /\ Cardinality(db) = 1
    /\ \A r \in db : r.accountId = The(subject[p])

\* DuplicateCredential: the unique violation the insert raises
IsDuplicateCredential(r) == r.kind = "throw" /\ r.error.name = "UniqueViolation"

\* C11: a verifyRegistration call whose verified response names a credential
\* id already stored, under the same account or another one, fails with
\* DuplicateCredential and leaves the repository as it was; no successful
\* registration for an account carries an id that account already owned.
C11_DuplicateRegistration ==
  [][\A p \in Procs :
       (pc[p] = "vr_insert" /\ pc'[p] = "ready")
         => LET id == The(response[p]).id
            IN /\ (\E r \in db : r.id = id)
                    => IsDuplicateCredential(ret'[p]) /\ db' = db
               /\ RegSucceeded(ret'[p])
                    => \A r \in db : r.accountId = The(subject[p]) => r.id # id
     ]_vars

C11_Witness ==
  \E p \in Procs :
    /\ pc[p] = "ready" /\ IsDuplicateCredential(ret[p])
    /\ "db" \in touched[p]
    /\ subject[p] = Some("u1")
    /\ db = {SeedRow}

\* the rows an account owns
RowsOf(table, accountId) == {r \in table : r.accountId = accountId}

StoredRow(table, id) == CHOOSE r \in table : r.id = id

\* C13: a successful verifyAuthentication sets the stored counter of the
\* named credential to the reported new counter and its lastUsed to the
\* current time, and the passkey it returns is the updated row: its counter
\* and lastUsed are the values now stored.
C13_ReturnsUpdatedPasskey ==
  [][\A p \in Procs :
       (pc[p] = "va_update" /\ pc'[p] = "ready")
         => LET stored == StoredRow(db', The(response[p]).id)
            IN /\ AuthSucceeded(ret'[p])
               /\ stored.counter = The(result[p]).authenticationInfo.newCounter
               /\ stored.lastUsed = Some(now)
               /\ ret'[p].value.passkey.counter = stored.counter
               /\ ret'[p].value.passkey.lastUsed = stored.lastUsed
     ]_vars

\* C14: verifyAuthentication hands an account to the caller only when the
\* verification succeeded, and that account owns the credential the response
\* names; no failure outcome resolves an account.
C14_AccountOnlyOnSuccess ==
  \A p \in Procs :
    (pc[p] = "ready" /\ ret[p].kind = "return" /\ "account" \in DOMAIN ret[p].value)
      => /\ ret[p].value.response.verified
         /\ \E r \in db :
              r.id = ret[p].value.passkey.id /\ r.accountId = ret[p].value.account

\* C15: once a verify call for a subject has failed, no later verify call
\* for the same (namespace, subject) succeeds until new options have been
\* issued for that subject.
C15_FailureIsTerminal ==
  [][\A p \in Procs :
       (InFlight(p) /\ late[p] /\ pc'[p] = "ready") => ~Succeeded(ret'[p])
     ]_vars

\* C16: an entry left alone goes away as time advances: for every challenge
\* entry, of either kind, there is a later time at which kv.get no longer
\* returns it, so a verify call made late enough fails with MissingChallenge.
C16_AbandonedCeremoniesExpire ==
  \A e \in kv :
    \E n \in 1..MaxTicks : KvGet(kv, e.key, now + n * TickMs) = None

\* registration options name the relying party and the user, authentication
\* options the relying party's id alone
IsRegistrationOptions(o) == "rp" \in DOMAIN o /\ "user" \in DOMAIN o
IsAuthenticationOptions(o) == "rpId" \in DOMAIN o

\* the entries of a store kept for subject x under namespace segment ns
EntriesFor(store, ns, x) == {e \in store : e.key = <<KV_NAMESPACE, ns, x>>}

\* C17: for an identifier used both as account id and as session id, issuing
\* registration options never creates, replaces or removes the authentication
\* entry, and the other way round; verifyAuthentication goes on only against
\* authentication options, never against a challenge that only
\* getRegistrationOptions issued, and verifyRegistration likewise.
C17_NamespaceIsolation ==
  [][/\ \A e \in kv' \ kv :
          /\ IsRegistrationOptions(e.value) => e.key[2] = "registration"
          /\ IsAuthenticationOptions(e.value) => e.key[2] = "authentication"
     /\ \A x \in Ids :
          \/ EntriesFor(kv', "registration", x) = EntriesFor(kv, "registration", x)
          \/ EntriesFor(kv', "authentication", x) = EntriesFor(kv, "authentication", x)
     /\ \A p \in Procs :
          /\ (pc[p] = "va_get" /\ pc'[p] = "va_find")
               => /\ IsAuthenticationOptions(The(options'[p]))
                  /\ \A e \in EntriesFor(kv, "registration", The(subject[p])) :
                       e.value.challenge # The(options'[p]).challenge
          /\ (pc[p] = "va_find" /\ pc'[p] = "va_update")
               => The(response'[p]).challenge = The(options[p]).challenge
          /\ (pc[p] = "vr_get" /\ pc'[p] = "vr_insert")
               => /\ IsRegistrationOptions(The(options'[p]))
                  /\ The(response'[p]).challenge = The(options'[p]).challenge
                  /\ \A e \in EntriesFor(kv, "authentication", The(subject[p])) :
                       e.value.challenge # The(options'[p]).challenge
    ]_vars

C17_Witness ==
  \E p \in Procs :
    /\ pc[p] = "va_update"
    /\ subject[p] = Some("u1")
    /\ EntriesFor(kv, "registration", "u1") # {}
    /\ EntriesFor(kv, "authentication", "u1") # {}

\* the namespace segment a request in flight belongs to
NamespaceOf(p) ==
  IF pc[p] \in {"vr_get", "vr_insert"} THEN "registration" ELSE "authentication"

\* the subject of request p has a live entry of its own
HasLiveChallenge(p) ==
  \E e \in EntriesFor(kv, NamespaceOf(p), The(subject[p])) :
    e.expires = None \/ now <= The(e.expires)

C19_RegistrationOutputHidesPublicKey ==
  \A p \in Procs :
    (pc[p] = "ready" /\ ret[p].kind = "return"
       /\ "registrationInfo" \in DOMAIN ret[p].value)
      => IF ret[p].value.verified
           THEN LET credential == The(ret[p].value.registrationInfo).credential
                IN /\ credential.id \in IdsOf(db)
                   /\ "publicKey" \notin DOMAIN credential
           ELSE ret[p].value.registrationInfo = None

\* C20: each issued challenge is consumed by at most one successful
\* verification: for any key, between two consecutive issues at most one
\* verify call succeeds, whether the responses are the same or differ and
\* whether the calls run one after the other or at once.
C20_SingleUseChallenge ==
  [][\A p \in Procs :
       (InFlight(p) /\ pc'[p] = "ready" /\ Succeeded(ret'[p]))
         => consumed[KeyOf(p)] = {}
     ]_vars

\* where the ceremony of key k stands
CeremonyState(k) ==
  IF issued[k] = None THEN "Idle"
  ELSE IF consumed[k] # {} THEN "Verified"
  ELSE IF failed[k] THEN "Failed"
  ELSE IF EntryState(k) = "expired" THEN "Expired"
  ELSE "OptionsIssued"

\* C21: per key the ceremony goes Idle -> OptionsIssued -> Verified | Failed
\* | Expired and no other way: a verify call succeeds only for a key whose
\* options were issued and whose ceremony has neither been verified nor
\* failed since, the response it verified answers the challenge read under
\* that key, and every insert or counter update is made by such a call.
C21_CeremonyStateMachine ==
  [][/\ \A p \in Procs :
          (InFlight(p) /\ pc'[p] = "ready" /\ Succeeded(ret'[p]))
            => /\ CeremonyState(KeyOf(p)) \notin {"Idle", "Verified", "Failed"}
               /\ The(response[p]).challenge = The(options[p]).challenge
     /\ db' # db
          => \E p \in Procs :
               /\ pc[p] \in {"vr_insert", "va_update"} /\ pc'[p] = "ready"
               /\ Succeeded(ret'[p])
               /\ issued[KeyOf(p)] # None
    ]_vars

\* the fields of a row an authentication never writes
Immutable(r) ==
  [id |-> r.id, accountId |-> r.accountId, publicKey |-> r.publicKey,
   deviceType |-> r.deviceType, backedUp |-> r.backedUp,
   transports |-> r.transports]

\* C22: a successful verifyAuthentication changes only the counter and the
\* lastUsed of the credential the response names: its other fields stay,
\* every other row stays as it was, and no row is inserted or deleted.
C22_AuthenticationFrame ==
  [][\A p \in Procs :
       (pc[p] = "va_update" /\ pc'[p] = "ready")
         => LET id == The(response[p]).id
            IN /\ IdsOf(db') = IdsOf(db)
               /\ Cardinality(db') = Cardinality(db)
               /\ \A r \in db : r.id # id => r \in db'
               /\ Immutable(StoredRow(db', id)) = Immutable(StoredRow(db, id))
     ]_vars

C22_Witness ==
  \E p \in Procs :
    /\ pc[p] = "ready" /\ AuthSucceeded(ret[p])
    /\ ret[p].value.passkey.id = "c1"
    /\ Cardinality(db) = 2
    /\ StoredRow(db, "c1").lastUsed # None
    /\ StoredRow(db, "c2").lastUsed = None

\* C23: a verifyAuthentication call that ends in anything but a verified
\* success leaves passkeyTable as it was, counter and lastUsed included: the
\* call writes in one step only, and that step ends in success.
C23_FailedAuthenticationChangesNothing ==
  [][\A p \in Procs :
       /\ (pc[p] \in {"va_get", "va_find"} /\ pc'[p] # pc[p]) => db' = db
       /\ (pc[p] \in {"va_get", "va_find", "va_update"} /\ pc'[p] = "ready"
             /\ ~AuthSucceeded(ret'[p]))
            => db' = db
     ]_vars

C23_Witness ==
  \E p, q \in Procs :
    /\ pc[p] = "ready" /\ ret[p].kind = "return"
    /\ "response" \in DOMAIN ret[p].value /\ ~ret[p].value.response.verified
    /\ pc[q] = "ready" /\ IsPossibleClone(ret[q])
    /\ db = {SeedRow}

\* the keys whose entries differ between two stores
ChangedKeys(old, new) == {e.key : e \in (old \ new) \cup (new \ old)}

\* C24: getRegistrationOptions and getAuthenticationOptions never modify
\* passkeyTable and write exactly one key, that of their own namespace and
\* subject; the verify functions never create or overwrite an entry, so a
\* stored challenge is never changed after it is issued.
C24_StoreSeparation ==
  [][/\ nextChallenge' # nextChallenge
          => /\ db' = db
             /\ Cardinality(ChangedKeys(kv, kv')) = 1
             /\ \E e \in kv' \ kv :
                  /\ e.value.challenge = nextChallenge
                  /\ e.key[1] = KV_NAMESPACE
                  /\ IF IsRegistrationOptions(e.value)
                       THEN e.key[2] = "registration" /\ e.key[3] = e.value.user.name
                       ELSE e.key[2] = "authentication"
     /\ nextChallenge' = nextChallenge => kv' = kv
     /\ \A p \in Procs : pc'[p] # pc[p] => kv' = kv
     /\ \A e \in kv : \A e2 \in kv' :
          (e2.key = e.key /\ e2.value.challenge = e.value.challenge) => e2 = e
    ]_vars

C24_Witness ==
  \E p \in Procs :
    /\ pc[p] = "ready" /\ AuthSucceeded(ret[p])
    /\ now = TickMs
    /\ \E e \in kv :
         /\ e.key = AuthKey(The(subject[p]))
         /\ e.expires = Some(AUTH_TTL_MS)
         /\ Some(e.value.challenge) = issued[e.key]
    /\ \E r \in db : r.lastUsed = Some(TickMs)

C26_OldUsernameLookupSurvives ==
  [][\A i \in Ids :
       accountTable'[i].usernameChanged # None
         => /\ accountTable'[i].oldUsername = renamedFrom'[i]
            /\ (/\ lookup' # lookup
                 /\ lookup'.username = renamedFrom[i]
                 /\ \A j \in Ids : Some(accountTable[j].username) # renamedFrom[i])
                 => lookup'.account = Some(i)
     ]_vars

====
